---- MODULE Spec2Model ----
(***************************************************************************)
(* Credential CRUD routes (core/framework/server/routes_credentials.py).  *)
(*                                                                         *)
(* Every handler is an operator from (store, request input) to the         *)
(* handler's outcome: the web.Response it returns or the exception that    *)
(* leaves it, the collaborator calls it made, and the store afterwards.    *)
(* One action per route applies the handler to the application's store.    *)
(***************************************************************************)
EXTENDS Integers, Sequences, FiniteSets, TLC

VARIABLES
    credential_store,   \* request.app["credential_store"]: id -> CredentialObject or None
    now,                \* the wall clock CredentialObject stamps new objects with
    last,               \* the last request, its outcome and the calls it made
    tombstones,         \* ids deleted with 200 and not saved since
    last_saved,         \* id -> key names of the latest successful save, <<>> once deleted
    merged_names        \* id -> every key name saved under the id since it was last absent

vars == <<credential_store, now, last, tombstones, last_saved, merged_names>>

(***************************************************************************)
(* Bounds and input sets.                                                  *)
(***************************************************************************)
MaxClock == 1
MaxMissing == 1

Ids == {"a", "b"}
IdOrder == <<"a", "b">>
Secrets == {"s1", "s2"}
AgentPaths == {"exports/agent"}

None == [t |-> "null"]

(***************************************************************************)
(* JSON values as request.json() yields them, and Python's truth test.     *)
(***************************************************************************)
JStr(s) == [t |-> "str", v |-> s]
JObj(pairs) == [t |-> "obj", v |-> pairs]
JArr(items) == [t |-> "arr", v |-> items]

Truthy(j) ==
    CASE j.t = "null" -> FALSE
      [] j.t = "str" -> j.v # ""
      [] j.t = "obj" -> Len(j.v) > 0
      [] j.t = "arr" -> Len(j.v) > 0

IsDict(j) == j.t = "obj"

\* dict.get(name): the value of the first pair under that name, None when absent.
RECURSIVE DictGet(_, _)
DictGet(pairs, name) ==
    IF pairs = <<>> THEN None
    ELSE IF Head(pairs)[1] = name THEN Head(pairs)[2]
    ELSE DictGet(Tail(pairs), name)

(***************************************************************************)
(* Outcomes of a handler.                                                  *)
(***************************************************************************)
json_response(data, status) == [kind |-> "response", status |-> status, body |-> data]
Raised(exc) == [kind |-> "raised", exc |-> exc]

(***************************************************************************)
(* framework.credentials.models and framework.credentials.store, as the    *)
(* routes use them.  A stored credential is the record                     *)
(*   [id, credential_type, keys, created_at, updated_at]                   *)
(* with keys the sequence of [name, value] in insertion order and value    *)
(* the SecretStr wrapping of the secret.                                   *)
(***************************************************************************)
DateTime(n) == [t |-> "datetime", v |-> n]
SecretStr(v) == [t |-> "secret", v |-> v]
CredentialKey(name, value) == [name |-> name, value |-> value]
DefaultCredentialType == [t |-> "enum", v |-> "api_key"]

IsoStrings ==
    <<"2026-01-01T00:00:00", "2026-01-01T00:00:01", "2026-01-01T00:00:02",
      "2026-01-01T00:00:03">>
isoformat(d) == IsoStrings[d.v + 1]
str(x) == x.v

get_credential(store, credential_id) ==
    IF credential_id \in DOMAIN store THEN store[credential_id] ELSE None

RECURSIVE ListFrom(_, _)
ListFrom(store, order) ==
    IF order = <<>> THEN <<>>
    ELSE (IF store[Head(order)] # None THEN <<Head(order)>> ELSE <<>>)
         \o ListFrom(store, Tail(order))

list_credentials(store) == ListFrom(store, IdOrder)

save_credential(store, cred) == [store EXCEPT ![cred.id] = cred]

delete_credential(store, credential_id) ==
    [deleted |-> get_credential(store, credential_id) # None,
     store |-> [i \in DOMAIN store |-> IF i = credential_id THEN None ELSE store[i]]]

is_available(store, credential_id) == get_credential(store, credential_id) # None

(***************************************************************************)
(* _credential_to_dict                                                     *)
(***************************************************************************)
RECURSIVE KeyNamesOf(_)
KeyNamesOf(keys) ==
    IF keys = <<>> THEN <<>> ELSE <<Head(keys).name>> \o KeyNamesOf(Tail(keys))

_credential_to_dict_leaky(cred) ==
    [credential_id |-> cred.id,
     credential_type |-> str(cred.credential_type),
     key_names |-> [i \in 1..Len(cred.keys) |-> <<cred.keys[i].name, cred.keys[i].value.v>>],
     created_at |-> IF cred.created_at # None THEN isoformat(cred.created_at) ELSE None,
     updated_at |-> IF cred.updated_at # None THEN isoformat(cred.updated_at) ELSE None]

_credential_to_dict(cred) ==
    [credential_id |-> cred.id,
     credential_type |-> str(cred.credential_type),
     key_names |-> KeyNamesOf(cred.keys),
     created_at |-> IF cred.created_at # None THEN isoformat(cred.created_at) ELSE None,
     updated_at |-> IF cred.updated_at # None THEN isoformat(cred.updated_at) ELSE None]

(***************************************************************************)
(* A handler's result: what it returned or raised, the collaborator calls  *)
(* it made in order, and the store it leaves.                              *)
(***************************************************************************)
Result(resp, calls, store) == [resp |-> resp, calls |-> calls, store |-> store]

NotFound(credential_id) == "Credential '" \o credential_id \o "' not found"

(***************************************************************************)
(* handle_list_credentials                                                 *)
(***************************************************************************)
RECURSIVE ListLoop(_, _)
ListLoop(store, cred_ids) ==
    IF cred_ids = <<>> THEN [credentials |-> <<>>, calls |-> <<>>]
    ELSE LET cid == Head(cred_ids)
             cred == get_credential(store, cid)
             rest == ListLoop(store, Tail(cred_ids))
         IN [credentials |->
                 (IF cred # None THEN <<_credential_to_dict(cred)>> ELSE <<>>)
                 \o rest.credentials,
             calls |-> <<<<"get_credential", cid>>>> \o rest.calls]

handle_list_credentials(store) ==
    LET cred_ids == list_credentials(store)
        loop == ListLoop(store, cred_ids)
    IN Result(json_response([credentials |-> loop.credentials], 200),
              <<<<"list_credentials">>>> \o loop.calls,
              store)

(***************************************************************************)
(* handle_get_credential                                                   *)
(***************************************************************************)
handle_get_credential_default_status(store, credential_id) ==
    LET cred == get_credential(store, credential_id)
        calls == <<<<"get_credential", credential_id>>>>
    IN IF cred = None
       THEN Result(json_response([error |-> NotFound(credential_id)], 200), calls, store)
       ELSE Result(json_response(_credential_to_dict(cred), 200), calls, store)

handle_get_credential(store, credential_id) ==
    LET cred == get_credential(store, credential_id)
        calls == <<<<"get_credential", credential_id>>>>
    IN IF cred = None
       THEN Result(json_response([error |-> NotFound(credential_id)], 404), calls, store)
       ELSE Result(json_response(_credential_to_dict(cred), 200), calls, store)

(***************************************************************************)
(* handle_save_credential                                                  *)
(*                                                                         *)
(* body is what the request carries: [t |-> "invalid"] for text that is    *)
(* not JSON (request.json() raises), else the parsed JSON value; .get on   *)
(* a value that is no dict raises AttributeError.  t is the time the new   *)
(* CredentialObject is stamped with.                                       *)
(***************************************************************************)
RECURSIVE KeysFromItems_swapped(_)
KeysFromItems_swapped(items) ==
    IF items = <<>> THEN <<>>
    ELSE <<CredentialKey(Head(items)[2].v, SecretStr(Head(items)[2].v))>>
         \o KeysFromItems_swapped(Tail(items))

\* {k: CredentialKey(name=k, value=SecretStr(v)) for k, v in keys.items()}
RECURSIVE KeysFromItems(_)
KeysFromItems(items) ==
    IF items = <<>> THEN <<>>
    ELSE <<CredentialKey(Head(items)[1], SecretStr(Head(items)[2].v))>>
         \o KeysFromItems(Tail(items))

CredentialObject(id, keys, t) ==
    [id |-> id,
     credential_type |-> DefaultCredentialType,
     keys |-> keys,
     created_at |-> DateTime(t),
     updated_at |-> DateTime(t)]

SaveRejected_no_isinstance(credential_id, keys) ==
    ~Truthy(credential_id) \/ ~Truthy(keys)

\* not credential_id or not keys or not isinstance(keys, dict)
SaveRejected(credential_id, keys) ==
    ~Truthy(credential_id) \/ ~Truthy(keys) \/ ~IsDict(keys)

handle_save_credential(store, body, t) ==
    IF body.t = "invalid" THEN Result(Raised("JSONDecodeError"), <<>>, store)
    ELSE IF ~IsDict(body) THEN Result(Raised("AttributeError"), <<>>, store)
    ELSE
        LET credential_id == DictGet(body.v, "credential_id")
            keys == DictGet(body.v, "keys")
        IN IF SaveRejected(credential_id, keys)
           THEN Result(json_response([error |-> "credential_id and keys are required"], 400),
                       <<>>, store)
           ELSE IF ~IsDict(keys) THEN Result(Raised("AttributeError"), <<>>, store)
           ELSE
               LET cred == CredentialObject(credential_id.v, KeysFromItems(keys.v), t)
               IN Result(json_response([saved |-> credential_id.v], 201),
                         <<<<"save_credential", cred.id>>>>,
                         save_credential(store, cred))

(***************************************************************************)
(* handle_delete_credential                                                *)
(***************************************************************************)
handle_delete_credential_ignores_result(store, credential_id) ==
    LET d == delete_credential(store, credential_id)
    IN Result(json_response([deleted |-> TRUE], 200),
              <<<<"delete_credential", credential_id>>>>, d.store)

handle_delete_credential(store, credential_id) ==
    LET d == delete_credential(store, credential_id)
        calls == <<<<"delete_credential", credential_id>>>>
    IN IF ~d.deleted
       THEN Result(json_response([error |-> NotFound(credential_id)], 404), calls, d.store)
       ELSE Result(json_response([deleted |-> TRUE], 200), calls, d.store)

(***************************************************************************)
(* handle_check_agent                                                      *)
(*                                                                         *)
(* env is what the collaborators do on this request:                       *)
(*   env.construct_raises  the message CredentialSetupSession raises with  *)
(*                         from from_agent_path, "" when it returns;       *)
(*   env.missing           session.missing;                                *)
(*   env.available_raises  the index of the entry at which                 *)
(*                         store.is_available raises, 0 for never.         *)
(***************************************************************************)
MissingCredential(name, id) ==
    [credential_name |-> name,
     credential_id |-> id,
     env_var |-> "ENV_" \o name,
     description |-> "credential " \o name,
     help_url |-> "https://example.invalid/" \o name,
     tools |-> <<"tool_" \o name>>,
     node_types |-> <<>>,
     direct_api_key_supported |-> TRUE,
     aden_supported |-> FALSE,
     credential_key |-> "api_key"]

MissingCredentials == {MissingCredential("a", ""), MissingCredential("brave", "b")}

\* x or y, on strings
StrOr(x, y) == IF x # "" THEN x ELSE y

RequiredEntry(mc, cred_id, available) ==
    [credential_name |-> mc.credential_name,
     credential_id |-> cred_id,
     env_var |-> mc.env_var,
     description |-> mc.description,
     help_url |-> mc.help_url,
     tools |-> mc.tools,
     node_types |-> mc.node_types,
     available |-> available,
     direct_api_key_supported |-> mc.direct_api_key_supported,
     aden_supported |-> mc.aden_supported,
     credential_key |-> mc.credential_key]

\* the for loop over session.missing, from entry i on
RECURSIVE RequiredLoop(_, _, _)
RequiredLoop(store, env, i) ==
    IF i > Len(env.missing) THEN [raised |-> "", required |-> <<>>, calls |-> <<>>]
    ELSE LET mc == env.missing[i]
             cred_id == StrOr(mc.credential_id, mc.credential_name)
             call == <<"is_available", cred_id>>
         IN IF env.available_raises = i
            THEN [raised |-> "store unavailable", required |-> <<>>, calls |-> <<call>>]
            ELSE LET rest == RequiredLoop(store, env, i + 1)
                 IN [raised |-> rest.raised,
                     required |-> <<RequiredEntry(mc, cred_id, is_available(store, cred_id))>>
                                  \o rest.required,
                     calls |-> <<call>> \o rest.calls]

\* the body of the try statement
CheckAgentTry(store, agent_path, env) ==
    LET construct == <<"from_agent_path", agent_path>>
    IN IF env.construct_raises # ""
       THEN Result(Raised(env.construct_raises), <<construct>>, store)
       ELSE LET loop == RequiredLoop(store, env, 1)
            IN IF loop.raised # ""
               THEN Result(Raised(loop.raised), <<construct>> \o loop.calls, store)
               ELSE Result(json_response([required |-> loop.required], 200),
                           <<construct>> \o loop.calls, store)

\* except Exception as e: ... return web.json_response({"error": str(e)}, status=500)
ExceptException_reraise(r) == r

ExceptException(r) ==
    IF r.resp.kind = "raised"
    THEN Result(json_response([error |-> r.resp.exc], 500), r.calls, r.store)
    ELSE r

AgentPathRejected_none_only(agent_path) == agent_path = None

\* not agent_path
AgentPathRejected(agent_path) == ~Truthy(agent_path)

handle_check_agent(store, body, env) ==
    IF body.t = "invalid" THEN Result(Raised("JSONDecodeError"), <<>>, store)
    ELSE IF ~IsDict(body) THEN Result(Raised("AttributeError"), <<>>, store)
    ELSE
        LET agent_path == DictGet(body.v, "agent_path")
        IN IF AgentPathRejected(agent_path)
           THEN Result(json_response([error |-> "agent_path is required"], 400), <<>>, store)
           ELSE ExceptException(CheckAgentTry(store, agent_path, env))

(***************************************************************************)
(* Request inputs.                                                         *)
(***************************************************************************)
Absent == [t |-> "absent"]
InvalidJson == [t |-> "invalid"]

Field(name, value) == IF value = Absent THEN <<>> ELSE <<<<name, value>>>>

\* JSON objects {"k": "s", ...}: one key, or two keys in either order
KeyDicts ==
    {JObj(<<<<"k1", JStr(s)>>>>) : s \in Secrets}
    \cup {JObj(<<<<"k1", JStr("s1")>>, <<"k2", JStr("s2")>>>>),
          JObj(<<<<"k2", JStr("s1")>>, <<"k1", JStr("s2")>>>>)}

SampleKeyDicts == {JObj(<<<<"k1", JStr("s1")>>>>)}

BadCredentialIds == {Absent, JStr("")}
GoodCredentialIds == {JStr(i) : i \in Ids}
BadKeys == {Absent, JObj(<<>>), JArr(<<JStr("k1")>>)}

SaveObject(credential_id, keys) ==
    JObj(Field("credential_id", credential_id) \o Field("keys", keys))

NonObjectBodies == {InvalidJson, None, JArr(<<>>)}

SaveBodies ==
    NonObjectBodies
    \cup {SaveObject(c, k) : c \in BadCredentialIds, k \in BadKeys \cup SampleKeyDicts}
    \cup {SaveObject(c, k) : c \in GoodCredentialIds, k \in BadKeys \cup KeyDicts}

CheckAgentBodies ==
    NonObjectBodies
    \cup {JObj(Field("agent_path", a)) :
            a \in {Absent, JStr("")} \cup {JStr(x) : x \in AgentPaths}}

RECURSIVE SeqsUpTo(_, _)
SeqsUpTo(S, n) ==
    IF n = 0 THEN {<<>>}
    ELSE LET shorter == SeqsUpTo(S, n - 1)
         IN shorter \cup {Append(q, x) : q \in shorter, x \in S}

NoEnv == [construct_raises |-> "", missing |-> <<>>, available_raises |-> 0]

CheckAgentEnvs ==
    {[construct_raises |-> "agent not found", missing |-> <<>>, available_raises |-> 0]}
    \cup UNION {{[construct_raises |-> "", missing |-> m, available_raises |-> k] :
                    k \in 0..Len(m)} :
                 m \in SeqsUpTo(MissingCredentials, MaxMissing)}

\* The collaborators' behaviour is drawn only for a request that reaches them.
ReachesTry(body) == IsDict(body) /\ Truthy(DictGet(body.v, "agent_path"))
EnvsFor(body) == IF ReachesTry(body) THEN CheckAgentEnvs ELSE {NoEnv}

KeyNamesOfItems(items) == [i \in 1..Len(items) |-> items[i][1]]

(***************************************************************************)
(* The state machine: one action per route of register_routes.             *)
(***************************************************************************)
Exchange(req, r) == [req |-> req, resp |-> r.resp, calls |-> r.calls]

Init ==
    /\ credential_store = [i \in Ids |-> None]
    /\ now = 0
    /\ last = [req |-> [op |-> "none"], resp |-> None, calls |-> <<>>]
    /\ tombstones = {}
    /\ last_saved = [i \in Ids |-> <<>>]
    /\ merged_names = [i \in Ids |-> {}]

\* GET /api/credentials
ListCredentials ==
    LET r == handle_list_credentials(credential_store)
    IN /\ last' = Exchange([op |-> "list"], r)
       /\ credential_store' = r.store
       /\ UNCHANGED <<now, tombstones, last_saved, merged_names>>

\* GET /api/credentials/{credential_id}
GetCredential ==
    \E credential_id \in Ids :
        LET r == handle_get_credential(credential_store, credential_id)
        IN /\ last' = Exchange([op |-> "get", credential_id |-> credential_id], r)
           /\ credential_store' = r.store
           /\ UNCHANGED <<now, tombstones, last_saved, merged_names>>

\* POST /api/credentials
SaveCredential ==
    \E body \in SaveBodies, t \in now..MaxClock :
        LET r == handle_save_credential(credential_store, body, t)
            saved == r.resp.kind = "response" /\ r.resp.status = 201
        IN /\ last' = Exchange([op |-> "save", body |-> body], r)
           /\ credential_store' = r.store
           /\ now' = t
           /\ tombstones' = IF saved THEN tombstones \ {r.resp.body.saved}
                            ELSE tombstones
           /\ last_saved' =
                  IF saved
                  THEN [last_saved EXCEPT ![r.resp.body.saved] =
                            KeyNamesOfItems(DictGet(body.v, "keys").v)]
                  ELSE last_saved
           /\ merged_names' =
                  IF saved
                  THEN [merged_names EXCEPT ![r.resp.body.saved] =
                            @ \cup {DictGet(body.v, "keys").v[i][1] :
                                       i \in 1..Len(DictGet(body.v, "keys").v)}]
                  ELSE merged_names

\* DELETE /api/credentials/{credential_id}
DeleteCredential ==
    \E credential_id \in Ids :
        LET r == handle_delete_credential(credential_store, credential_id)
            deleted == r.resp.status = 200
        IN /\ last' = Exchange([op |-> "delete", credential_id |-> credential_id], r)
           /\ credential_store' = r.store
           /\ tombstones' = IF deleted THEN tombstones \cup {credential_id} ELSE tombstones
           /\ last_saved' = IF deleted THEN [last_saved EXCEPT ![credential_id] = <<>>]
                            ELSE last_saved
           /\ merged_names' = IF deleted THEN [merged_names EXCEPT ![credential_id] = {}]
                              ELSE merged_names
           /\ UNCHANGED now

\* POST /api/credentials/check-agent
CheckAgent ==
    \E body \in CheckAgentBodies :
        \E env \in EnvsFor(body) :
            LET r == handle_check_agent(credential_store, body, env)
            IN /\ last' = Exchange([op |-> "check_agent", body |-> body, env |-> env], r)
               /\ credential_store' = r.store
               /\ UNCHANGED <<now, tombstones, last_saved, merged_names>>

Next ==
    \/ ListCredentials
    \/ GetCredential
    \/ SaveCredential
    \/ DeleteCredential
    \/ CheckAgent

Spec == Init /\ [][Next]_vars

(***************************************************************************)
(* Properties.                                                             *)
(***************************************************************************)
IsResponse(resp, status) == resp.kind = "response" /\ resp.status = status
HasField(body, name) == \E i \in 1..Len(body.v) : body.v[i][1] = name
FieldOf(body, name) == body.v[CHOOSE i \in 1..Len(body.v) : body.v[i][1] = name][2]
CallsTo(calls, method) == {i \in 1..Len(calls) : calls[i][1] = method}

\* The stores that hold the same ids, types, key names and timestamps as
\* store under any secret values.
SecretVariantsOfCred(cred) ==
    IF cred = None THEN {None}
    ELSE {[cred EXCEPT !.keys =
              [i \in 1..Len(cred.keys) |->
                  CredentialKey(cred.keys[i].name, SecretStr(f[i]))]] :
            f \in [1..Len(cred.keys) -> Secrets]}

SecretVariants(store) ==
    {st \in [Ids -> UNION {SecretVariantsOfCred(store[i]) : i \in Ids}] :
        \A i \in Ids : st[i] \in SecretVariantsOfCred(store[i])}

MetadataFields ==
    {"credential_id", "credential_type", "key_names", "created_at", "updated_at"}

\* C1: the list and get responses never include secret values: on every store
\* that differs from the application's store only in secret values, every
\* list and get request is answered exactly as on the application's store
\* (and as the last list or get request was answered), and each serialized
\* credential carries only credential_id, credential_type, key_names,
\* created_at and updated_at.
C1_NoSecretInListOrGet ==
    /\ \A st \in SecretVariants(credential_store) :
          /\ handle_list_credentials(st).resp
                = handle_list_credentials(credential_store).resp
          /\ \A i \in Ids :
                handle_get_credential(st, i).resp
                    = handle_get_credential(credential_store, i).resp
          /\ last.req.op = "list" => last.resp = handle_list_credentials(st).resp
          /\ last.req.op = "get" =>
                last.resp = handle_get_credential(st, last.req.credential_id).resp
    /\ last.req.op = "list" =>
          \A i \in 1..Len(last.resp.body.credentials) :
              DOMAIN last.resp.body.credentials[i] = MetadataFields
    /\ (last.req.op = "get" /\ IsResponse(last.resp, 200)) =>
          DOMAIN last.resp.body = MetadataFields

\* a list of two credentials, one of them holding two secrets, on a store
\* that has secret variants other than itself
C1_Witness ==
    /\ last.req.op = "list"
    /\ Len(last.resp.body.credentials) = 2
    /\ \E i \in Ids : Len(credential_store[i].keys) = 2
    /\ Cardinality(SecretVariants(credential_store)) > 1

\* what the claim says of a save body: credential_id missing or empty, or
\* keys missing, empty or not an object
C2_Case(body) ==
    /\ IsDict(body)
    /\ \/ ~HasField(body, "credential_id")
       \/ FieldOf(body, "credential_id") = JStr("")
       \/ ~HasField(body, "keys")
       \/ FieldOf(body, "keys") = JObj(<<>>)
       \/ FieldOf(body, "keys").t # "obj"

\* C2: a save whose JSON object body has credential_id missing or empty, or
\* keys missing, empty or not an object, is answered 400 with error
\* 'credential_id and keys are required', calls store.save_credential never
\* and leaves the store as it was.
C2_SaveRejects ==
    [][(last'.req.op = "save" /\ C2_Case(last'.req.body)) =>
          /\ last'.resp
                = json_response([error |-> "credential_id and keys are required"], 400)
          /\ CallsTo(last'.calls, "save_credential") = {}
          /\ credential_store' = credential_store]_vars

\* a save of an id with keys that are a non-empty array, refused while the
\* store holds a credential
C2_Witness ==
    /\ last.req.op = "save"
    /\ C2_Case(last.req.body)
    /\ HasField(last.req.body, "credential_id")
    /\ FieldOf(last.req.body, "credential_id") = JStr("a")
    /\ HasField(last.req.body, "keys")
    /\ FieldOf(last.req.body, "keys").t = "arr"
    /\ IsResponse(last.resp, 400)
    /\ credential_store["a"] # None

\* C3: a get is answered 404 with an error naming the id exactly when the
\* store holds no credential under the id, and otherwise 200 with the
\* metadata of the credential stored under that id; no other status occurs.
C3_GetStatus ==
    last.req.op = "get" =>
        LET id == last.req.credential_id
            cred == credential_store[id]
        IN /\ last.resp.kind = "response"
           /\ last.resp.status \in {200, 404}
           /\ last.resp.status = 404 <=> cred = None
           /\ cred = None =>
                 last.resp.body = [error |-> "Credential '" \o id \o "' not found"]
           /\ cred # None =>
                 /\ last.resp.body.credential_id = id
                 /\ last.resp.body.credential_type = cred.credential_type.v
                 /\ last.resp.body.key_names
                       = [i \in 1..Len(cred.keys) |-> cred.keys[i].name]
                 /\ last.resp.body.created_at = IsoStrings[cred.created_at.v + 1]
                 /\ last.resp.body.updated_at = IsoStrings[cred.updated_at.v + 1]

\* a get of an id that was deleted, answered 404 while the other id is stored
C3_Witness ==
    /\ last.req.op = "get"
    /\ IsResponse(last.resp, 404)
    /\ last.req.credential_id \in tombstones
    /\ \E i \in Ids : credential_store[i] # None

\* C4: a delete is answered 200 {"deleted": true} exactly when the id was in
\* the store and 404 when it was not; a 404 delete leaves the store as it
\* was; and once an id was deleted with 200, every get or delete of it is
\* answered 404 until a save of it succeeds.
C4_DeleteStatus ==
    [][/\ last'.req.op = "delete" =>
             LET id == last'.req.credential_id
             IN /\ credential_store[id] # None =>
                      last'.resp = json_response([deleted |-> TRUE], 200)
                /\ credential_store[id] = None =>
                      /\ IsResponse(last'.resp, 404)
                      /\ credential_store' = credential_store
       /\ (last'.req.op \in {"get", "delete"}
              /\ last'.req.credential_id \in tombstones) =>
             IsResponse(last'.resp, 404)]_vars

\* a second delete of a deleted id, answered 404, while the other id is stored
C4_Witness ==
    /\ last.req.op = "delete"
    /\ IsResponse(last.resp, 404)
    /\ last.req.credential_id \in tombstones
    /\ \E i \in Ids : credential_store[i] # None

\* what the claim says of a check-agent body: agent_path missing or empty
C5_Case(body) ==
    /\ IsDict(body)
    /\ \/ ~HasField(body, "agent_path")
       \/ FieldOf(body, "agent_path") = JStr("")

\* C5: a check-agent request whose JSON object body has agent_path missing or
\* empty is answered 400 with error 'agent_path is required', and neither
\* builds a CredentialSetupSession nor calls store.is_available.
C5_CheckAgentRejects ==
    (last.req.op = "check_agent" /\ C5_Case(last.req.body)) =>
        /\ last.resp = json_response([error |-> "agent_path is required"], 400)
        /\ CallsTo(last.calls, "from_agent_path") = {}
        /\ CallsTo(last.calls, "is_available") = {}

\* a check-agent request with agent_path "", refused
C5_Witness ==
    /\ last.req.op = "check_agent"
    /\ C5_Case(last.req.body)
    /\ HasField(last.req.body, "agent_path")
    /\ IsResponse(last.resp, 400)

\* C6 as stated: every check-agent request ends in a response with status
\* 200, 400 or 500 and no exception leaves the handler.
C6_EveryRequestAnswered ==
    last.req.op = "check_agent" =>
        /\ last.resp.kind = "response"
        /\ last.resp.status \in {200, 400, 500}

\* C6, amended: every check-agent request whose body is a JSON object ends in
\* a response with status 200, 400 or 500: a failure of the session's
\* construction or of store.is_available while session.missing is iterated is
\* answered 500 with {"error": <message>}, and no exception leaves the handler.
C6_ObjectBodyAnswered ==
    (last.req.op = "check_agent" /\ IsDict(last.req.body)) =>
        LET env == last.req.env
        IN /\ last.resp.kind = "response"
           /\ last.resp.status \in {200, 400, 500}
           /\ (ReachesTry(last.req.body) /\ env.construct_raises # "") =>
                 last.resp = json_response([error |-> env.construct_raises], 500)
           /\ (ReachesTry(last.req.body) /\ env.construct_raises = ""
                  /\ env.available_raises # 0) =>
                 last.resp = json_response([error |-> "store unavailable"], 500)
           /\ (ReachesTry(last.req.body) /\ env.construct_raises = ""
                  /\ env.available_raises = 0) =>
                 /\ IsResponse(last.resp, 200)
                 /\ Len(last.resp.body.required) = Len(env.missing)

\* store.is_available raises on the first required credential; answered 500
C6_Witness ==
    /\ last.req.op = "check_agent"
    /\ IsDict(last.req.body)
    /\ last.req.env.available_raises = 1
    /\ CallsTo(last.calls, "is_available") # {}
    /\ IsResponse(last.resp, 500)

\* what the claim says of a save body: a non-empty credential_id and a
\* non-empty object keys
C7_Case(body) ==
    /\ IsDict(body)
    /\ HasField(body, "credential_id")
    /\ FieldOf(body, "credential_id").t = "str"
    /\ FieldOf(body, "credential_id").v # ""
    /\ HasField(body, "keys")
    /\ FieldOf(body, "keys").t = "obj"
    /\ Len(FieldOf(body, "keys").v) > 0

\* C7: a save whose JSON object body has a non-empty credential_id and a
\* non-empty object keys calls store.save_credential exactly once and is
\* answered 201 {"saved": credential_id}; from then until the id is deleted,
\* a get of the id is answered 200 with that credential_id and with key_names
\* equal to the key names of the latest successful save of the id.
C7_SaveThenGet ==
    /\ (last.req.op = "save" /\ C7_Case(last.req.body)) =>
          /\ Cardinality(CallsTo(last.calls, "save_credential")) = 1
          /\ last.resp
                = json_response([saved |-> FieldOf(last.req.body, "credential_id").v], 201)
    /\ (last.req.op = "get" /\ last_saved[last.req.credential_id] # <<>>) =>
          /\ IsResponse(last.resp, 200)
          /\ last.resp.body.credential_id = last.req.credential_id
          /\ last.resp.body.key_names = last_saved[last.req.credential_id]

\* a get of an id saved with two keys and then saved again with one of them:
\* the one key name of the later save is what the get answers
C7_Witness ==
    /\ last.req.op = "get"
    /\ last_saved[last.req.credential_id] # <<>>
    /\ Len(last_saved[last.req.credential_id]) = 1
    /\ Cardinality(merged_names[last.req.credential_id]) = 2
    /\ IsResponse(last.resp, 200)
    /\ Len(last.resp.body.key_names) = 1

====
